---- MODULE Spec2Model ----
(***************************************************************************)
(* Model of the three MockupMCP driver scripts                             *)
(*   scripts/create_corporate_website.py   ("website",  ids from 100)      *)
(*   scripts/continue_corporate_website.py ("continue", ids from 500)      *)
(*   scripts/create_corporate_v2.py        ("v2",       ids from 600)      *)
(* Each script is a sequential program: a JSON-RPC client (next_id,        *)
(* mcp_call, tool_call) and a top-level loop over the pages.               *)
(*                                                                         *)
(* Text is modelled as a sequence of tokens.  A token stands for a fixed   *)
(* piece of text (one character, the six characters "data: ", or a whole   *)
(* one-line JSON document); str.splitlines, str.startswith, slicing,       *)
(* str.strip and json.loads are computed on these sequences.               *)
(***************************************************************************)
EXTENDS Integers, Sequences, FiniteSets, TLC

(***************************************************************************)
(* Bounds of the model.                                                    *)
(***************************************************************************)
MaxBodyLen == 5
MaxTime == 2
MaxNoteLen == 2

(***************************************************************************)
(* Python values (the results of json.loads).                              *)
(***************************************************************************)
Dict(f) == [k |-> "dict", d |-> f]
List(s) == [k |-> "list", items |-> s]
Str(s) == [k |-> "str", s |-> s]
Num(n) == [k |-> "num", n |-> n]
Bool(b) == [k |-> "bool", b |-> b]
None == [k |-> "none"]
EmptyDict == Dict(<<>>)

Return(v) == [kind |-> "return", value |-> v]
Raise(exc, v) == [kind |-> "raise", exc |-> exc, value |-> v]

(***************************************************************************)
(* Tokens.                                                                 *)
(*   "data: "  the six characters d a t a : space                          *)
(*   NL        "\n": a line boundary, JSON whitespace                      *)
(*   LS        U+2028: a line boundary for str.splitlines and whitespace   *)
(*             for str.strip, but an ordinary character for json.loads     *)
(*             (legal inside a JSON string, illegal between JSON tokens)   *)
(*   SP        " "                                                         *)
(*   "x"       a letter (never valid JSON on its own)                      *)
(*   SO        the text  {"result":{"content":[],"note":"   (string open)  *)
(*   SC        the text  "}}                                (string close) *)
(* and one token per one-line JSON document of DocValue below.  Splitting  *)
(* a document token is never needed: a document holds no line boundary     *)
(* and no whitespace at either end.                                        *)
(***************************************************************************)
DataPrefix == "data: "
NL == "NL"
LS == "LS"
SP == "SP"
SO == "SO"
SC == "SC"

ErrorPayload == Dict([code |-> Num(0 - 32000)])
TextItem(t) == Dict([type |-> Str(<<"text">>), text |-> Str(t)])
ImageItem == Dict([type |-> Str(<<"image">>)])
ScreenResult(id) == Dict([content |-> List(<<TextItem(<<id>>)>>)])

\* The screens of the remote service: the i-th screen it creates gets the id
\* ScreenIds[i], and ScreenDoc[i] is the one-line response document whose
\* result carries the text {"id": <that id>} as its first content item.
ScreenIds == <<"scr_1", "scr_2", "scr_3", "scr_4", "scr_5">>
ScreenDoc == <<"R_scr_1", "R_scr_2", "R_scr_3", "R_scr_4", "R_scr_5">>

\* json.loads of each one-line document token.
DocValue ==
  [ I_scr_1 |-> Dict([id |-> Str(<<"scr_1">>)]),
    I_scr_2 |-> Dict([id |-> Str(<<"scr_2">>)]),
    I_scr_3 |-> Dict([id |-> Str(<<"scr_3">>)]),
    I_scr_4 |-> Dict([id |-> Str(<<"scr_4">>)]),
    I_scr_5 |-> Dict([id |-> Str(<<"scr_5">>)]),
    R_scr_1 |-> Dict([result |-> ScreenResult("I_scr_1")]),
    R_scr_2 |-> Dict([result |-> ScreenResult("I_scr_2")]),
    R_scr_3 |-> Dict([result |-> ScreenResult("I_scr_3")]),
    R_scr_4 |-> Dict([result |-> ScreenResult("I_scr_4")]),
    R_scr_5 |-> Dict([result |-> ScreenResult("I_scr_5")]),
    R_text |-> Dict([result |-> Dict([content |-> List(<<TextItem(<<"x">>)>>)])]),
    R_image |-> Dict([result |-> Dict([content |-> List(<<ImageItem>>)])]),
    R_isError |-> Dict([result |-> Dict([content |-> List(<<TextItem(<<"x">>)>>),
                                         isError |-> Bool(TRUE)])]),
    R_isError0 |-> Dict([result |-> Dict([content |-> List(<<>>),
                                          isError |-> Bool(TRUE)])]),
    E |-> Dict([error |-> ErrorPayload]),
    ER |-> Dict([error |-> ErrorPayload,
                 result |-> Dict([content |-> List(<<TextItem(<<"x">>)>>)])]),
    R_isErrorImage |-> Dict([result |-> Dict([content |-> List(<<ImageItem>>),
                                              isError |-> Bool(TRUE)])]),
    R_notError |-> Dict([result |-> Dict([content |-> List(<<TextItem(<<"I_scr_1">>)>>),
                                          isError |-> Bool(FALSE)])]),
    R_text5 |-> Dict([result |-> Dict([content |-> List(<<TextItem(<<SP, "Five", NL>>)>>)])]),
    R_textNum |-> Dict([result |-> Dict([content |->
                          List(<<Dict([type |-> Str(<<"text">>), text |-> Num(5)])>>)])]),
    R_typeOnly |-> Dict([result |-> Dict([content |->
                           List(<<Dict([type |-> Str(<<"text">>)])>>)])]),
    R_image_text |-> Dict([result |-> Dict([content |->
                             List(<<ImageItem, TextItem(<<"I_scr_1">>)>>)])]),
    R_items5 |-> Dict([result |-> Dict([content |-> List(<<Num(5)>>)])]),
    R_contentStr |-> Dict([result |-> Dict([content |-> Str(<<"x">>)])]),
    R_null |-> Dict([result |-> None]),
    N |-> EmptyDict,
    Five |-> Num(5) ]

DocTokens == DOMAIN DocValue
JsonWhitespace == {SP, NL}
PyWhitespace == {SP, NL, LS}
LineBreaks == {NL, LS}
StringLegal == {SP, LS, DataPrefix, "x"}

(***************************************************************************)
(* Text operations.                                                        *)
(***************************************************************************)
RECURSIVE DropLeading(_, _)
DropLeading(t, ws) ==
  IF t # <<>> /\ Head(t) \in ws THEN DropLeading(Tail(t), ws) ELSE t

RECURSIVE DropTrailing(_, _)
DropTrailing(t, ws) ==
  IF t # <<>> /\ t[Len(t)] \in ws
  THEN DropTrailing(SubSeq(t, 1, Len(t) - 1), ws) ELSE t

\* str.strip()
Strip(t) == DropTrailing(DropLeading(t, PyWhitespace), PyWhitespace)

\* Index of the first line boundary of t, 0 when there is none.
FirstBreak(t) ==
  LET I == {i \in 1..Len(t) : t[i] \in LineBreaks}
  IN IF I = {} THEN 0 ELSE CHOOSE i \in I : \A j \in I : i <= j

\* str.splitlines(): no empty last line after a final boundary.
RECURSIVE SplitLines(_)
SplitLines(t) ==
  IF t = <<>> THEN <<>>
  ELSE LET i == FirstBreak(t)
       IN IF i = 0 THEN <<t>>
          ELSE <<SubSeq(t, 1, i - 1)>> \o SplitLines(SubSeq(t, i + 1, Len(t)))

\* StartsWithData with a prefix that no line has
StartsWithData_never(line) == FALSE

\* line.startswith("data: ")
StartsWithData(line) == line # <<>> /\ Head(line) = DataPrefix

(***************************************************************************)
(* JSON text written out token by token: the structural characters         *)
(*   {  }  [  ]  ,  :  and the quote, the digits and the minus sign, the   *)
(* literals true, false and null, and inside a string any other token as   *)
(* a piece of the string's text.  json.dumps (ensure_ascii) writes a line  *)
(* boundary or a quote inside a string as an escape, never raw.            *)
(***************************************************************************)
QUOTE == "\""
ENL == "\\n"
ELS == "\\u2028"
EQUOTE == "\\\""
DigitTokens == <<"0", "1", "2", "3", "4", "5", "6", "7", "8", "9">>

\* Escape that writes every character as it is
Escape_raw(c) == c

\* one character of a string, as json.dumps writes it
Escape(c) ==
  CASE c = NL -> ENL
    [] c = LS -> ELS
    [] c = QUOTE -> EQUOTE
    [] OTHER -> c

\* one character of a string, as json.loads reads it
Unescape(c) ==
  CASE c = ENL -> NL
    [] c = ELS -> LS
    [] c = EQUOTE -> QUOTE
    [] OTHER -> c

RECURSIVE Digits(_)
Digits(n) ==
  IF n < 10 THEN <<DigitTokens[n + 1]>>
  ELSE Digits(n \div 10) \o <<DigitTokens[(n % 10) + 1]>>

RECURSIVE JsonDumps(_)
RECURSIVE DumpItems(_)
RECURSIVE DumpMembers(_, _)

\* the items with ", " between them, written half by half
DumpItems(items) ==
  IF items = <<>> THEN <<>>
  ELSE IF Len(items) = 1 THEN JsonDumps(items[1])
  ELSE DumpItems(SubSeq(items, 1, Len(items) \div 2))
         \o <<",", SP>>
         \o DumpItems(SubSeq(items, (Len(items) \div 2) + 1, Len(items)))

DumpMembers(d, keys) ==
  IF keys = {} THEN <<>>
  ELSE LET key == CHOOSE x \in keys : TRUE
           member == <<QUOTE, key, QUOTE, ":", SP>> \o JsonDumps(d[key])
       IN IF keys = {key} THEN member
          ELSE member \o <<",", SP>> \o DumpMembers(d, keys \ {key})

\* json.dumps(v)
JsonDumps(v) ==
  CASE v.k = "dict" -> <<"{">> \o DumpMembers(v.d, DOMAIN v.d) \o <<"}">>
    [] v.k = "list" -> <<"[">> \o DumpItems(v.items) \o <<"]">>
    [] v.k = "str" -> <<QUOTE>> \o [i \in 1..Len(v.s) |-> Escape(v.s[i])] \o <<QUOTE>>
    [] v.k = "num" -> IF v.n < 0 THEN <<"-">> \o Digits(0 - v.n) ELSE Digits(v.n)
    [] v.k = "bool" -> IF v.b THEN <<"true">> ELSE <<"false">>
    [] v.k = "none" -> <<"null">>

\* The parser: each operator reads t from position i on and gives
\* [ok, v, next], next being the position after what it read.
ParseFailure == [ok |-> FALSE, v |-> None, next |-> 0]
Parsed(v, next) == [ok |-> TRUE, v |-> v, next |-> next]

RECURSIVE SkipWhitespace(_, _)
SkipWhitespace(t, i) ==
  IF i <= Len(t) /\ t[i] \in JsonWhitespace THEN SkipWhitespace(t, i + 1) ELSE i

IsDigit(c) == \E n \in 1..10 : DigitTokens[n] = c
DigitValue(c) == (CHOOSE n \in 1..10 : DigitTokens[n] = c) - 1

RECURSIVE ParseDigits(_, _, _)
ParseDigits(t, i, acc) ==
  IF i <= Len(t) /\ IsDigit(t[i]) THEN ParseDigits(t, i + 1, 10 * acc + DigitValue(t[i]))
  ELSE Parsed(Num(acc), i)

\* the characters of a string up to the closing quote
RECURSIVE ParseString(_, _, _)
ParseString(t, i, acc) ==
  IF i > Len(t) \/ t[i] = NL THEN ParseFailure
  ELSE IF t[i] = QUOTE THEN Parsed(Str(acc), i + 1)
  ELSE ParseString(t, i + 1, Append(acc, Unescape(t[i])))

RECURSIVE ParseValue(_, _)
RECURSIVE ParseRun(_, _, _)
RECURSIVE ParseItems(_, _, _, _)
RECURSIVE ParseMembers(_, _, _)

\* The items of an array are read in runs of 1, 2, 4, ... items, and a run
\* half by half, which keeps the evaluation of a long array shallow.  A run
\* is [ok, items, next, closed], closed when it ended at "]".
RunFailure == [ok |-> FALSE, items |-> <<>>, next |-> 0, closed |-> FALSE]
Run(items, next, closed) ==
  [ok |-> TRUE, items |-> items, next |-> next, closed |-> closed]

\* after an item: "," or "]"
ItemEnd(t, item, j) ==
  IF j > Len(t) THEN RunFailure
  ELSE IF t[j] = "," THEN Run(<<item.v>>, j + 1, FALSE)
  ELSE IF t[j] = "]" THEN Run(<<item.v>>, j + 1, TRUE)
  ELSE RunFailure

OneItem(t, item) ==
  IF item.ok THEN ItemEnd(t, item, SkipWhitespace(t, item.next)) ELSE RunFailure

JoinRuns(left, right) ==
  IF right.ok THEN Run(left.items \o right.items, right.next, right.closed)
  ELSE RunFailure

SecondHalf(t, n, left) ==
  IF ~left.ok \/ left.closed THEN left
  ELSE JoinRuns(left, ParseRun(t, left.next, n))

\* up to n items from position i on
ParseRun(t, i, n) ==
  IF n = 1 THEN OneItem(t, ParseValue(t, i))
  ELSE SecondHalf(t, n - (n \div 2), ParseRun(t, i, n \div 2))

ItemsAfterRun(t, acc, n, run) ==
  IF ~run.ok THEN ParseFailure
  ELSE IF run.closed THEN Parsed(List(acc \o run.items), run.next)
  ELSE ParseItems(t, run.next, acc \o run.items, 2 * n)

\* the items of an array after "[", the next n of them first
ParseItems(t, i, acc, n) == ItemsAfterRun(t, acc, n, ParseRun(t, i, n))

\* after a member: "," and the next member, or "}"
MembersNext(t, d, e) ==
  IF e > Len(t) THEN ParseFailure
  ELSE IF t[e] = "," THEN ParseMembers(t, e + 1, d)
  ELSE IF t[e] = "}" THEN Parsed(Dict(d), e + 1)
  ELSE ParseFailure

\* a later member of the same key replaces the earlier one
MemberAfterValue(t, acc, key, member) ==
  IF member.ok
  THEN MembersNext(t, (key :> member.v) @@ acc, SkipWhitespace(t, member.next))
  ELSE ParseFailure

MemberAfterColon(t, acc, key, c) ==
  IF c <= Len(t) /\ t[c] = ":"
  THEN MemberAfterValue(t, acc, key, ParseValue(t, c + 1))
  ELSE ParseFailure

\* a key is one token
MemberAfterKey(t, acc, key) ==
  IF key.ok /\ Len(key.v.s) = 1
  THEN MemberAfterColon(t, acc, key.v.s[1], SkipWhitespace(t, key.next))
  ELSE ParseFailure

MemberAt(t, acc, j) ==
  IF j <= Len(t) /\ t[j] = QUOTE
  THEN MemberAfterKey(t, acc, ParseString(t, j + 1, <<>>))
  ELSE ParseFailure

\* the members of an object after "{" or ","
ParseMembers(t, i, acc) == MemberAt(t, acc, SkipWhitespace(t, i))

ObjectAt(t, j) ==
  IF j <= Len(t) /\ t[j] = "}" THEN Parsed(EmptyDict, j + 1)
  ELSE ParseMembers(t, j, <<>>)

ArrayAt(t, j) ==
  IF j <= Len(t) /\ t[j] = "]" THEN Parsed(List(<<>>), j + 1)
  ELSE ParseItems(t, j, <<>>, 1)

Negated(n) == Parsed(Num(0 - n.v.n), n.next)

ValueAt(t, i) ==
  IF i > Len(t) THEN ParseFailure
  ELSE CASE t[i] = "{" -> ObjectAt(t, SkipWhitespace(t, i + 1))
         [] t[i] = "[" -> ArrayAt(t, SkipWhitespace(t, i + 1))
         [] t[i] = QUOTE -> ParseString(t, i + 1, <<>>)
         [] t[i] = "-" ->
              IF i + 1 <= Len(t) /\ IsDigit(t[i + 1])
              THEN Negated(ParseDigits(t, i + 1, 0))
              ELSE ParseFailure
         [] IsDigit(t[i]) ->
              IF t[i] = "0" /\ i + 1 <= Len(t) /\ IsDigit(t[i + 1]) THEN ParseFailure
              ELSE ParseDigits(t, i, 0)
         [] t[i] = "true" -> Parsed(Bool(TRUE), i + 1)
         [] t[i] = "false" -> Parsed(Bool(FALSE), i + 1)
         [] t[i] = "null" -> Parsed(None, i + 1)
         [] OTHER -> ParseFailure

ParseValue(t, i) == ValueAt(t, SkipWhitespace(t, i))

WholeText(t, r) ==
  IF r.ok /\ SkipWhitespace(t, r.next) > Len(t) THEN [ok |-> TRUE, v |-> r.v]
  ELSE [ok |-> FALSE, v |-> None]

\* json.loads of a text written out token by token
ParseJson(t) == WholeText(t, ParseValue(t, 1))

\* json.loads(t): [ok, v].  Leading and trailing JSON whitespace is skipped;
\* what is left is one document token, or SO <string characters> SC, or a
\* text written out token by token.
JsonLoads(t) ==
  LET u == DropTrailing(DropLeading(t, JsonWhitespace), JsonWhitespace)
  IN IF Len(u) = 1 /\ u[1] \in DocTokens
     THEN [ok |-> TRUE, v |-> DocValue[u[1]]]
     ELSE IF /\ Len(u) >= 2
             /\ u[1] = SO
             /\ u[Len(u)] = SC
             /\ \A i \in 2..(Len(u) - 1) : u[i] \in StringLegal
     THEN [ok |-> TRUE,
           v |-> Dict([result |-> Dict([content |-> List(<<>>),
                                        note |-> Str(SubSeq(u, 2, Len(u) - 1))])])]
     ELSE ParseJson(u)

(***************************************************************************)
(* Dictionary access.                                                      *)
(***************************************************************************)
IsDict(v) == v.k = "dict"
HasKey(v, key) == IsDict(v) /\ key \in DOMAIN v.d
\* v.get(key, default) on a dict v
Get(v, key, default) == IF key \in DOMAIN v.d THEN v.d[key] ELSE default

(***************************************************************************)
(* mcp_call, from the response body on (the request was sent and the body  *)
(* read).  create_corporate_website.py and continue_corporate_website.py   *)
(* hold the same text; create_corporate_v2.py differs.                     *)
(***************************************************************************)
\* Index of the first line that starts with "data: ", 0 when there is none.
FirstDataLine(lines) ==
  LET I == {i \in 1..Len(lines) : StartsWithData(lines[i])}
  IN IF I = {} THEN 0 ELSE CHOOSE i \in I : \A j \in I : i <= j

\* result_text: line[6:] of the first "data: " line; when that is empty
\* (no such line, or nothing after the prefix) the stripped body.
ResultText(body) ==
  LET lines == SplitLines(body)
      i == FirstDataLine(lines)
      result_text == IF i = 0 THEN <<>> ELSE Tail(lines[i])
  IN IF result_text = <<>> THEN Strip(body) ELSE result_text

\* data = json.loads(result_text); raise on "error" in data; data.get("result", {})
mcp_call_website(body) ==
  LET data == JsonLoads(ResultText(body))
  IN IF ~data.ok THEN Raise("JSONDecodeError", None)
     ELSE IF ~IsDict(data.v) THEN Raise("TypeError", None)
     ELSE IF HasKey(data.v, "error") THEN Raise("MCP error", data.v.d["error"])
     ELSE Return(Get(data.v, "result", EmptyDict))

mcp_call_continue(body) ==
  LET data == JsonLoads(ResultText(body))
  IN IF ~data.ok THEN Raise("JSONDecodeError", None)
     ELSE IF ~IsDict(data.v) THEN Raise("TypeError", None)
     ELSE IF HasKey(data.v, "error") THEN Raise("MCP error", data.v.d["error"])
     ELSE Return(Get(data.v, "result", EmptyDict))

\* return json.loads(line[6:]).get("result", {}) for the first "data: " line,
\* else json.loads(raw.strip()).get("result", {}); no look at "error".
PayloadTextV2(body) ==
  LET lines == SplitLines(body)
      i == FirstDataLine(lines)
  IN IF i # 0 THEN Tail(lines[i]) ELSE Strip(body)

mcp_call_v2(body) ==
  LET data == JsonLoads(PayloadTextV2(body))
  IN IF ~data.ok THEN Raise("JSONDecodeError", None)
     ELSE IF ~IsDict(data.v) THEN Raise("AttributeError", None)
     ELSE Return(Get(data.v, "result", EmptyDict))

\* The text handed to json.loads, and what json.loads makes of it.
PayloadText(s, body) == IF s = "v2" THEN PayloadTextV2(body) ELSE ResultText(body)
Decoded(s, body) == JsonLoads(PayloadText(s, body))

mcp_call(s, body) ==
  CASE s = "website" -> mcp_call_website(body)
    [] s = "continue" -> mcp_call_continue(body)
    [] s = "v2" -> mcp_call_v2(body)

(***************************************************************************)
(* tool_call / tool: the result extractor.                                 *)
(***************************************************************************)
\* Python truth value
Truthy(v) ==
  CASE v.k = "bool" -> v.b
    [] v.k = "num" -> v.n # 0
    [] v.k = "str" -> v.s # <<>>
    [] v.k = "list" -> v.items # <<>>
    [] v.k = "dict" -> DOMAIN v.d # {}
    [] OTHER -> FALSE

\* the marker used in the message when content is empty
UnknownMarker(s) == IF s = "v2" THEN Str(<<"?">>) ELSE Str(<<"unknown">>)

\* FirstItem that looks for the first item of type "text" among all items
FirstItem_text(content) ==
  IF content.k = "list"
  THEN LET I == {i \in 1..Len(content.items) :
                   /\ content.items[i].k = "dict"
                   /\ "type" \in DOMAIN content.items[i].d
                   /\ content.items[i].d["type"] = [k |-> "str", s |-> <<"text">>]}
       IN [ok |-> TRUE,
           v |-> IF I = {} THEN content.items[1]
                 ELSE content.items[CHOOSE i \in I : \A j \in I : i <= j]]
  ELSE [ok |-> FALSE, v |-> "TypeError"]

\* content[0] of a true content: [ok, v]; ok is FALSE when the subscript
\* raises, and v is then the exception's type.
FirstItem(content) ==
  CASE content.k = "list" -> [ok |-> TRUE, v |-> content.items[1]]
    [] content.k = "str" -> [ok |-> TRUE, v |-> Str(<<Head(content.s)>>)]
    [] content.k = "dict" -> [ok |-> FALSE, v |-> "KeyError"]
    [] OTHER -> [ok |-> FALSE, v |-> "TypeError"]

\* content[0]['text'] if content else <marker>, the text of the message
ErrorText(s, content) ==
  IF ~Truthy(content) THEN [ok |-> TRUE, v |-> UnknownMarker(s)]
  ELSE LET item == FirstItem(content)
       IN IF ~item.ok THEN item
          ELSE IF ~IsDict(item.v) THEN [ok |-> FALSE, v |-> "TypeError"]
          ELSE IF ~HasKey(item.v, "text") THEN [ok |-> FALSE, v |-> "KeyError"]
          ELSE [ok |-> TRUE, v |-> item.v.d["text"]]

\* ParseOrRaw without the except branch
ParseOrRaw_strict(item) ==
  IF ~HasKey(item, "text") THEN Raise("KeyError", None)
  ELSE LET text == item.d["text"]
       IN IF text.k # "str" THEN Raise("TypeError", None)
          ELSE LET parsed == JsonLoads(text.s)
               IN IF parsed.ok THEN Return(parsed.v) ELSE Raise("JSONDecodeError", None)

\* try: return json.loads(content[0]["text"]) / except: return content[0]["text"]
ParseOrRaw(item) ==
  IF ~HasKey(item, "text") THEN Raise("KeyError", None)
  ELSE LET text == item.d["text"]
       IN IF text.k # "str" THEN Return(text)
          ELSE LET parsed == JsonLoads(text.s)
               IN IF parsed.ok THEN Return(parsed.v) ELSE Return(text)

\* The extraction from the value mcp_call returned.
Extract(s, tool_name, result) ==
  IF ~IsDict(result) THEN Raise("AttributeError", None)
  ELSE
    LET content == Get(result, "content", List(<<>>))
    IN IF Truthy(Get(result, "isError", None))
       THEN LET text == ErrorText(s, content)
            IN IF text.ok THEN Raise("Tool error", [tool |-> tool_name, text |-> text.v])
               ELSE Raise(text.v, None)
       ELSE IF ~Truthy(content) THEN Return(result)
       ELSE LET item == FirstItem(content)
            IN IF ~item.ok THEN Raise(item.v, None)
               ELSE IF ~IsDict(item.v) THEN Raise("AttributeError", None)
               ELSE IF Get(item.v, "type", None) = Str(<<"text">>)
               THEN ParseOrRaw(item.v)
               ELSE Return(result)

tool_call(s, tool_name, rpc) ==
  IF rpc.kind = "raise" THEN rpc ELSE Extract(s, tool_name, rpc.value)

(***************************************************************************)
(* Program constants and static data.                                      *)
(***************************************************************************)
Scripts == {"website", "continue", "v2"}

SESSION_ID == "ffba88af-54d6-46c3-ad55-8abdfa7df1e0"
BASE_URL == "http://localhost:3200/mcp"
PROJECT_ID(s) == IF s = "v2" THEN "proj_kLIQ1BZw2L" ELSE "proj_oUwIukpLme"

\* the initial value of _id_counter
IdOffset(s) ==
  CASE s = "website" -> 100
    [] s = "continue" -> 500
    [] s = "v2" -> 600

NumPages == 5
PageName == <<"Home", "About", "Services", "Portfolio", "Contact">>

\* len(elements_fn()) of each page; the descriptors are static literals and an
\* element is represented by its position in the list its generator returns.
ElementCount(s, i) ==
  CASE s = "website" -> <<38, 33, 46, 39, 34>>[i]
    [] s = "v2" -> <<38, 37, 46, 45, 32>>[i]
    [] s = "continue" -> <<0, 0, 0, 45, 33>>[i]

elements_fn(s, i) == [n \in 1..ElementCount(s, i) |-> n]

\* continue_corporate_website.py: the screens that exist already
existing ==
  << [idx |-> 1, name |-> "Home", screen_id |-> Str(<<"scr_Q9k4Hy2vNg">>),
      num_elements |-> 38, creation_ms |-> 42],
     [idx |-> 2, name |-> "About", screen_id |-> Str(<<"scr_saiLoIDZsc">>),
      num_elements |-> 33, creation_ms |-> 90],
     [idx |-> 3, name |-> "Services", screen_id |-> Str(<<"scr_T3S8HWguo7">>),
      num_elements |-> 46, creation_ms |-> 20] >>

\* index of the first page the script creates itself
FirstNewPage(s) == IF s = "continue" THEN Len(existing) + 1 ELSE 1

(***************************************************************************)
(* Request building: next_id and the payload and headers of mcp_call.      *)
(***************************************************************************)
\* next_id that draws two ids for one request
next_id_twice(counter) == counter + 2

\* next_id without the increment
next_id_stuck(counter) == counter

next_id(counter) == counter + 1

\* Request that uses the tool's name as the RPC method
Request_by_tool(s, id, tool_name, arguments) ==
  [ url |-> BASE_URL,
    http_method |-> "POST",
    headers |-> [ContentType |-> "application/json",
                 Accept |-> "application/json, text/event-stream",
                 McpSessionId |-> SESSION_ID],
    payload |-> [jsonrpc |-> "2.0", id |-> id, method |-> tool_name,
                 params |-> [name |-> tool_name, arguments |-> arguments]] ]

\* Request that sends the session header with the first request only
Request_first_only(s, id, tool_name, arguments) ==
  [ url |-> BASE_URL,
    http_method |-> "POST",
    headers |-> [ContentType |-> "application/json",
                 Accept |-> "application/json, text/event-stream",
                 McpSessionId |-> IF id = IdOffset(s) + 1 THEN SESSION_ID ELSE ""],
    payload |-> [jsonrpc |-> "2.0", id |-> id, method |-> "tools/call",
                 params |-> [name |-> tool_name, arguments |-> arguments]] ]

Request(s, id, tool_name, arguments) ==
  [ url |-> BASE_URL,
    http_method |-> "POST",
    headers |-> [ContentType |-> "application/json",
                 Accept |-> "application/json, text/event-stream",
                 McpSessionId |-> SESSION_ID],
    payload |-> [jsonrpc |-> "2.0", id |-> id, method |-> "tools/call",
                 params |-> [name |-> tool_name, arguments |-> arguments]] ]

create_screen_args(s, name) ==
  [project_id |-> PROJECT_ID(s), name |-> name, width |-> 1440, height |-> 900,
   background |-> "#FFFFFF", style |-> "flat"]

\* bulk_add_args that leaves the last element to a later chunk
bulk_add_args_chunk(s, sid, elements) ==
  [project_id |-> PROJECT_ID(s), screen_id |-> sid,
   elements |-> SubSeq(elements, 1, Len(elements) - 1)]

bulk_add_args(s, sid, elements) ==
  [project_id |-> PROJECT_ID(s), screen_id |-> sid, elements |-> elements]

\* export_png_args with the id of the first screen instead of the page's
export_png_args_first(s, sid) ==
  [project_id |-> PROJECT_ID(s), screen_id |-> Str(<<ScreenIds[1]>>),
   format |-> "png", scale |-> 1]

export_png_args(s, sid) ==
  [project_id |-> PROJECT_ID(s), screen_id |-> sid, format |-> "png", scale |-> 1]

\* The payload as the Python value mcp_call builds: a string is the one
\* piece of text it is, an element descriptor the number that stands for it.
StrOf(x) == Str(<<x>>)

ArgumentsValue(tool_name, a) ==
  CASE tool_name = "mockup_add_screen" ->
         Dict([project_id |-> StrOf(a.project_id), name |-> StrOf(a.name),
               width |-> Num(a.width), height |-> Num(a.height),
               background |-> StrOf(a.background), style |-> StrOf(a.style)])
    [] tool_name = "mockup_bulk_add_elements" ->
         Dict([project_id |-> StrOf(a.project_id), screen_id |-> a.screen_id,
               elements |-> List([n \in 1..Len(a.elements) |-> Num(a.elements[n])])])
    [] tool_name = "mockup_export" ->
         Dict([project_id |-> StrOf(a.project_id), screen_id |-> a.screen_id,
               format |-> StrOf(a.format), scale |-> Num(a.scale)])

PayloadValue(req) ==
  Dict([jsonrpc |-> StrOf(req.payload.jsonrpc),
        id |-> Num(req.payload.id),
        method |-> StrOf(req.payload.method),
        params |-> Dict([name |-> StrOf(req.payload.params.name),
                         arguments |-> ArgumentsValue(req.payload.params.name,
                                                      req.payload.params.arguments)])])

\* body = json.dumps(payload).encode(): the text is ASCII, its bytes are
\* its characters
RequestBody(req) == JsonDumps(PayloadValue(req))

(***************************************************************************)
(* What the network gives back to one request: a transport failure         *)
(* (urlopen raises), or a response body.                                   *)
(***************************************************************************)
TransportFailure == [kind |-> "failure", body |-> <<>>]
Body(b) == [kind |-> "body", body |-> b]

\* An event-stream body carrying one document: an "event:" line (not a
\* "data: " line), the data line, and the blank line that ends the event.
EventStream(doc) == <<"x", NL, DataPrefix, doc, NL, NL>>

\* What may come back while page i is processed: a transport failure, a body
\* that is not JSON, a tool-level error, an RPC-level error without and with a
\* result, an object with neither, a plain text result, and the event stream
\* that carries the i-th screen.
Replies(i) ==
  {TransportFailure}
    \cup {Body(<<d>>) : d \in {"R_isError", "E", "ER", "N", "R_text"}}
    \cup {Body(<<"x">>), Body(EventStream(ScreenDoc[i]))}

\* mcp_call as a whole: urlopen, then the decoding
rpc_outcome(s, reply) ==
  IF reply.kind = "failure" THEN Raise("URLError", None) ELSE mcp_call(s, reply.body)

\* tool_call(tool_name, arguments) as a whole
tool_outcome(s, tool_name, reply) == tool_call(s, tool_name, rpc_outcome(s, reply))

\* ScreenId read with screen.get("id")
ScreenId_get(screen) ==
  IF ~IsDict(screen) THEN Raise("TypeError", None)
  ELSE Return(Get(screen, "id", None))

\* screen["id"] of what create_screen returned
ScreenId(screen) ==
  IF ~IsDict(screen) THEN Raise("TypeError", None)
  ELSE IF ~HasKey(screen, "id") THEN Raise("KeyError", None)
  ELSE Return(screen.d["id"])

(***************************************************************************)
(* State.                                                                  *)
(*   script       which of the three scripts runs                          *)
(*   pc           position in the script: "existing" (the export-only loop *)
(*                of continue_corporate_website.py), "create", "bulk",     *)
(*                "export" (the steps of the page loop), "summary",        *)
(*                "done", "aborted" (an uncaught exception ended the run)  *)
(*   idx          index of the page being processed                        *)
(*   id_counter   _id_counter                                              *)
(*   sent         the requests handed to urlopen so far, in order          *)
(*   results      results                                                  *)
(*   screen_id, num_elements, creation_time, t_start, t_end, t_exp_start   *)
(*                the loop's variables of the same names                   *)
(*   now          the clock read by ms()                                   *)
(*   tool, reply, rpc, outcome                                             *)
(*                the last call: tool name, what the network gave back,    *)
(*                what mcp_call did and what tool_call did                 *)
(*   export_raised  indices of the pages whose export call raised          *)
(*   summary      the table and totals printed at the end                  *)
(***************************************************************************)
VARIABLES script, pc, idx, id_counter, sent, results, screen_id, num_elements,
          creation_time, t_start, t_end, t_exp_start, now, tool, reply, rpc,
          outcome, export_raised, summary

vars == <<script, pc, idx, id_counter, sent, results, screen_id, num_elements,
          creation_time, t_start, t_end, t_exp_start, now, tool, reply, rpc,
          outcome, export_raised, summary>>

locals == <<screen_id, num_elements, creation_time, t_start, t_end, t_exp_start>>

NoOutcome == [kind |-> "none"]
NoReply == [kind |-> "none", body |-> <<>>]
NoSummary == [rendered |-> FALSE]

Init ==
  /\ script \in Scripts
  /\ pc = IF script = "continue" THEN "existing" ELSE "create"
  /\ idx = 1
  /\ id_counter = IdOffset(script)
  /\ sent = <<>>
  /\ results = <<>>
  /\ screen_id = None
  /\ num_elements = 0
  /\ creation_time = 0
  /\ t_start = 0
  /\ t_end = 0
  /\ t_exp_start = 0
  /\ now = 0
  /\ tool = "-"
  /\ reply = NoReply
  /\ rpc = NoOutcome
  /\ outcome = NoOutcome
  /\ export_raised = {}
  /\ summary = NoSummary

\* Call in which a failure stays: once a call has raised, every later call
\* has that outcome
Call_sticky(tool_name, arguments, r, res, d) ==
  /\ id_counter' = next_id(id_counter)
  /\ sent' = Append(sent, Request(script, next_id(id_counter), tool_name, arguments))
  /\ now' = now + d
  /\ tool' = tool_name
  /\ reply' = r
  /\ rpc' = rpc_outcome(script, r)
  /\ outcome' = IF outcome.kind = "raise" THEN outcome ELSE res

\* One blocking tool call: the request is built with a fresh id and sent, the
\* network gives back r after d ms, and the outcome is recorded.
\* res is tool_outcome(script, tool_name, r).
Call(tool_name, arguments, r, res, d) ==
  /\ id_counter' = next_id(id_counter)
  /\ sent' = Append(sent, Request(script, next_id(id_counter), tool_name, arguments))
  /\ now' = now + d
  /\ tool' = tool_name
  /\ reply' = r
  /\ rpc' = rpc_outcome(script, r)
  /\ outcome' = res

\* Row that blanks the creation time of a page whose export failed
Row_failed_blank(i, name, sid, creation_ms, n, export_ms) ==
  [idx |-> i, name |-> name, screen_id |-> sid,
   creation_ms |-> IF export_ms < 0 THEN 0 ELSE creation_ms,
   num_elements |-> n, export_ms |-> export_ms]

Row(i, name, sid, creation_ms, n, export_ms) ==
  [idx |-> i, name |-> name, screen_id |-> sid, creation_ms |-> creation_ms,
   num_elements |-> n, export_ms |-> export_ms]

\* Elapsed without the subtraction of the start
Elapsed_from_zero(t0, t1) == t1

\* t_end - t_start, t_exp_end - t_exp_start
Elapsed(t0, t1) == t1 - t0

\* FailedExportMs with the negated elapsed time in every script
FailedExportMs_negated(s, elapsed) == 0 - elapsed

\* export_ms recorded when the export call raised, after elapsed ms
FailedExportMs(s, elapsed) == IF s = "v2" THEN 0 - elapsed ELSE 0 - 1

\* CatchesExport with the try in every script
CatchesExport_all(s) == TRUE

\* Whether the script catches an exception raised by export_png
CatchesExport(s) == s \in {"v2", "continue"}

\* AfterPage with a loop that stops one page early
AfterPage_early(s, i) ==
  IF s = "continue" /\ i < Len(existing) THEN "existing"
  ELSE IF i < NumPages - 1 THEN "create"
  ELSE "summary"

\* AfterPage that ends the run after the last page without the summary
AfterPage_no_summary(s, i) ==
  IF s = "continue" /\ i < Len(existing) THEN "existing"
  ELSE IF i < NumPages THEN "create"
  ELSE "done"

\* the position after the row of page i was appended
AfterPage(s, i) ==
  IF s = "continue" /\ i < Len(existing) THEN "existing"
  ELSE IF i < NumPages THEN "create"
  ELSE "summary"

(***************************************************************************)
(* continue_corporate_website.py: export of an existing screen.            *)
(***************************************************************************)
ExportExisting ==
  /\ pc = "existing"
  /\ \E r \in Replies(idx), d \in 0..(MaxTime - now) :
       LET ex == existing[idx]
           res == tool_outcome(script, "mockup_export", r)
           export_time == IF res.kind = "return" THEN Elapsed(now, now + d)
                          ELSE FailedExportMs(script, Elapsed(now, now + d))
       IN /\ Call("mockup_export", export_png_args(script, ex.screen_id), r, res, d)
          /\ t_exp_start' = now
          /\ results' = Append(results, Row(ex.idx, ex.name, ex.screen_id,
                                            ex.creation_ms, ex.num_elements, export_time))
          /\ export_raised' = IF res.kind = "return" THEN export_raised
                              ELSE export_raised \cup {ex.idx}
          /\ idx' = idx + 1
          /\ pc' = AfterPage(script, idx)
  /\ UNCHANGED <<script, screen_id, num_elements, creation_time, t_start, t_end, summary>>

(***************************************************************************)
(* The page loop: create the screen, read its id, build the elements.      *)
(***************************************************************************)
CreateScreen ==
  /\ pc = "create"
  /\ \E r \in Replies(idx), d \in 0..(MaxTime - now) :
       LET screen == tool_outcome(script, "mockup_add_screen", r)
           sid == IF screen.kind = "return" THEN ScreenId(screen.value) ELSE screen
       IN /\ Call("mockup_add_screen", create_screen_args(script, PageName[idx]), r, screen, d)
          /\ t_start' = now
          /\ IF sid.kind = "return"
             THEN /\ screen_id' = sid.value
                  /\ num_elements' = Len(elements_fn(script, idx))
                  /\ pc' = "bulk"
             ELSE /\ pc' = "aborted"
                  /\ UNCHANGED <<screen_id, num_elements>>
  /\ UNCHANGED <<script, idx, results, creation_time, t_end, t_exp_start,
                 export_raised, summary>>

BulkAdd ==
  /\ pc = "bulk"
  /\ \E r \in Replies(idx), d \in 0..(MaxTime - now) :
       LET res == tool_outcome(script, "mockup_bulk_add_elements", r)
       IN /\ Call("mockup_bulk_add_elements",
                  bulk_add_args(script, screen_id, elements_fn(script, idx)), r, res, d)
          /\ IF res.kind = "return"
             THEN /\ t_end' = now + d
                  /\ creation_time' = Elapsed(t_start, now + d)
                  /\ pc' = "export"
             ELSE /\ pc' = "aborted"
                  /\ UNCHANGED <<t_end, creation_time>>
  /\ UNCHANGED <<script, idx, results, screen_id, num_elements, t_start, t_exp_start,
                 export_raised, summary>>

\* The clock may move by g between t_end = ms() and t_exp_start = ms().
Export ==
  /\ pc = "export"
  /\ \E r \in Replies(idx), g \in 0..(MaxTime - now) :
       \E d \in 0..(MaxTime - now - g) :
         LET res == tool_outcome(script, "mockup_export", r)
             export_time == IF res.kind = "return" THEN Elapsed(now + g, now + g + d)
                            ELSE FailedExportMs(script, Elapsed(now + g, now + g + d))
         IN /\ Call("mockup_export", export_png_args(script, screen_id), r, res, g + d)
            /\ t_exp_start' = now + g
            /\ export_raised' = IF res.kind = "return" THEN export_raised
                                ELSE export_raised \cup {idx}
            /\ IF res.kind = "return" \/ CatchesExport(script)
               THEN /\ results' = Append(results, Row(idx, PageName[idx], screen_id,
                                                      creation_time, num_elements,
                                                      export_time))
                    /\ idx' = idx + 1
                    /\ pc' = AfterPage(script, idx)
               ELSE /\ pc' = "aborted"
                    /\ UNCHANGED <<results, idx>>
  /\ UNCHANGED <<script, screen_id, num_elements, creation_time, t_start, t_end, summary>>

(***************************************************************************)
(* The summary: results.sort (continue_corporate_website.py), the table    *)
(* and the totals.                                                         *)
(***************************************************************************)
\* the place of the k-th row after the sort: behind every row of a smaller
\* idx and every earlier row of the same idx
SortedPlace(rows, k) ==
  1 + Cardinality({j \in 1..Len(rows) :
                     \/ rows[j].idx < rows[k].idx
                     \/ rows[j].idx = rows[k].idx /\ j < k})

\* results.sort(key=lambda r: r["idx"]): stable
SortByIdx(rows) ==
  [p \in 1..Len(rows) |-> rows[CHOOSE k \in 1..Len(rows) : SortedPlace(rows, k) = p]]

RECURSIVE Sum(_)
Sum(ns) == IF ns = <<>> THEN 0 ELSE Head(ns) + Sum(Tail(ns))

\* what the table shows in the export column of a row
ExportCell(s, r) ==
  CASE s = "website" -> [marker |-> "", ms |-> r.export_ms]
    [] s = "v2" -> IF r.export_ms >= 0 THEN [marker |-> "", ms |-> r.export_ms]
                   ELSE [marker |-> "FAIL", ms |-> 0]
    [] s = "continue" -> IF r.export_ms >= 0 THEN [marker |-> "", ms |-> r.export_ms]
                         ELSE [marker |-> "TIMEOUT", ms |-> 0]

\* ExportAddend without the test of the sign
ExportAddend_all(s, r) == r.export_ms

\* what a row adds to the export total
ExportAddend(s, r) ==
  IF s = "website" \/ r.export_ms >= 0 THEN r.export_ms ELSE 0

Summarize(s, rows) ==
  LET total_creation == Sum([i \in 1..Len(rows) |-> rows[i].creation_ms])
      total_export == Sum([i \in 1..Len(rows) |-> ExportAddend(s, rows[i])])
      total_elements == Sum([i \in 1..Len(rows) |-> rows[i].num_elements])
  IN [ rendered |-> TRUE,
       table |-> [i \in 1..Len(rows) |->
                    [idx |-> rows[i].idx, name |-> rows[i].name,
                     creation_ms |-> rows[i].creation_ms,
                     num_elements |-> rows[i].num_elements,
                     export |-> ExportCell(s, rows[i])]],
       total_creation |-> total_creation,
       total_export |-> total_export,
       total_elements |-> total_elements,
       avg_creation |-> total_creation \div 5,
       avg_export |-> total_export \div 5,
       avg_elements |-> total_elements \div 5 ]

Summary ==
  /\ pc = "summary"
  /\ results' = IF script = "continue" THEN SortByIdx(results) ELSE results
  /\ summary' = Summarize(script, results')
  /\ pc' = "done"
  /\ UNCHANGED <<script, idx, id_counter, sent, locals, now, tool, reply, rpc,
                 outcome, export_raised>>

Next == ExportExisting \/ CreateScreen \/ BulkAdd \/ Export \/ Summary

Spec == Init /\ [][Next]_vars

\* The call in flight fails at once: urlopen raises (timeout=60 at the
\* latest), whichever call it is.
CallFails ==
  /\ reply' = TransportFailure
  /\ now' = now
  /\ (ExportExisting \/ CreateScreen \/ BulkAdd \/ Export)

\* The script runs its statements one after the other, and no call blocks
\* for ever: a run never stays at a call or before the summary.
SpecLive == Init /\ [][Next]_vars /\ WF_vars(CallFails) /\ WF_vars(Summary)

(***************************************************************************)
(* The client alone: one tool call of any script, whose response body is   *)
(* any text of at most MaxBodyLen tokens, or one of the documents in one   *)
(* of the framings a server uses.                                          *)
(***************************************************************************)
ToolNames == {"mockup_add_screen", "mockup_bulk_add_elements", "mockup_export"}

BodyTokens == {DataPrefix, NL, LS, "x", SO, SC, "R_text", "E"}

Framings(doc) ==
  {<<doc>>, <<DataPrefix, doc>>, <<DataPrefix, doc, NL>>, EventStream(doc)}

Bodies ==
  UNION {[1..n -> BodyTokens] : n \in 0..MaxBodyLen}
    \cup UNION {Framings(doc) : doc \in DocTokens}

InitDecode ==
  /\ script \in Scripts
  /\ pc = "receive"
  /\ idx = 1
  /\ id_counter = IdOffset(script)
  /\ sent = <<>>
  /\ results = <<>>
  /\ screen_id = None
  /\ num_elements = 0
  /\ creation_time = 0
  /\ t_start = 0
  /\ t_end = 0
  /\ t_exp_start = 0
  /\ now = 0
  /\ tool = "-"
  /\ reply = NoReply
  /\ rpc = NoOutcome
  /\ outcome = NoOutcome
  /\ export_raised = {}
  /\ summary = NoSummary

Receive ==
  /\ pc = "receive"
  /\ \E t \in ToolNames, b \in Bodies :
       /\ tool' = t
       /\ reply' = Body(b)
       /\ rpc' = mcp_call(script, b)
       /\ outcome' = tool_call(script, t, mcp_call(script, b))
  /\ pc' = "decoded"
  /\ UNCHANGED <<script, idx, id_counter, sent, results, locals, now,
                 export_raised, summary>>

NextDecode == Receive

SpecDecode == InitDecode /\ [][NextDecode]_vars

(***************************************************************************)
(* The codec alone: one request of any script is built and serialized, and *)
(* a response {"result": v} written by json.dumps comes back in one of the *)
(* two body encodings and is decoded.                                      *)
(***************************************************************************)
Encodings == {"bare", "event"}

\* the body that carries the document J
EncodeBody(enc, J) == IF enc = "event" THEN <<DataPrefix>> \o J \o <<NL>> ELSE J

NoteTexts == UNION {[1..n -> {LS, NL, DataPrefix, "x"}] : n \in 0..MaxNoteLen}

ResponseValues ==
  {DocValue[d].d["result"] : d \in {x \in DocTokens : HasKey(DocValue[x], "result")}}
    \cup {Dict([content |-> List(<<>>), note |-> Str(t)]) : t \in NoteTexts}
    \cup {EmptyDict, List(<<>>), Str(<<QUOTE>>), Num(5), Num(0 - 32000), Bool(FALSE)}

InitCodec ==
  /\ script \in Scripts
  /\ pc = "build"
  /\ idx \in FirstNewPage(script)..NumPages
  /\ id_counter \in {IdOffset(script), IdOffset(script) + 9}
  /\ sent = <<>>
  /\ results = <<>>
  /\ screen_id \in {Str(<<ScreenIds[1]>>), Num(5)}
  /\ num_elements = 0
  /\ creation_time = 0
  /\ t_start = 0
  /\ t_end = 0
  /\ t_exp_start = 0
  /\ now = 0
  /\ tool = "-"
  /\ reply = NoReply
  /\ rpc = NoOutcome
  /\ outcome = NoOutcome
  /\ export_raised = {}
  /\ summary = NoSummary

RoundTrip ==
  /\ pc = "build"
  /\ \E t \in ToolNames, v \in ResponseValues, enc \in Encodings :
       LET arguments ==
             CASE t = "mockup_add_screen" -> create_screen_args(script, PageName[idx])
               [] t = "mockup_bulk_add_elements" ->
                    bulk_add_args(script, screen_id, elements_fn(script, idx))
               [] t = "mockup_export" -> export_png_args(script, screen_id)
           body == EncodeBody(enc, JsonDumps(Dict([result |-> v])))
       IN /\ id_counter' = next_id(id_counter)
          /\ sent' = <<Request(script, next_id(id_counter), t, arguments)>>
          /\ tool' = t
          /\ reply' = Body(body)
          /\ rpc' = mcp_call(script, body)
          /\ outcome' = tool_call(script, t, mcp_call(script, body))
  /\ pc' = "roundtrip"
  /\ UNCHANGED <<script, idx, results, locals, now, export_raised, summary>>

NextCodec == RoundTrip

SpecCodec == InitCodec /\ [][NextCodec]_vars

(***************************************************************************)
(* Vocabulary of the properties.                                           *)
(***************************************************************************)
LastRequest == sent[Len(sent)]
ToolOf(req) == req.payload.params.name
ArgsOf(req) == req.payload.params.arguments

\* The object json.loads made of the last response.
LastDecoded == Decoded(script, reply.body)

\* The last response decoded to an object with an "error" key.
HasErrorField ==
  /\ reply.kind = "body"
  /\ LastDecoded.ok
  /\ HasKey(LastDecoded.v, "error")

ErrorField == LastDecoded.v.d["error"]

\* The last response decoded to an object whose result has isError true.
ResultIsError ==
  /\ reply.kind = "body"
  /\ LastDecoded.ok
  /\ HasKey(LastDecoded.v, "result")
  /\ IsDict(LastDecoded.v.d["result"])
  /\ Truthy(Get(LastDecoded.v.d["result"], "isError", None))

\* results holds a row for the screen the last request names.
RowOfLastRequest(k) ==
  /\ k \in 1..Len(results)
  /\ results[k].screen_id = ArgsOf(LastRequest).screen_id

Aborted == pc = "aborted"

(***************************************************************************)
(* C1.  Whenever the decoded response of a call holds an "error" key,      *)
(* mcp_call raises an error that carries the error payload (and so returns *)
(* nothing taken from "result"), in every script.                          *)
(* Fails in create_corporate_v2.py, whose mcp_call never looks at "error". *)
(***************************************************************************)
C1_ErrorFieldRaises ==
  HasErrorField => rpc = Raise("MCP error", ErrorField)

(***************************************************************************)
(* C2.  Whenever the export call of a page raises, a row for that page is  *)
(* appended and the run goes on, in every script.                          *)
(* Fails in create_corporate_website.py, which has no try around export.   *)
(***************************************************************************)
C2_ExportFailureGoesOn ==
  (tool = "mockup_export" /\ outcome.kind = "raise")
    => (~Aborted /\ \E k \in 1..Len(results) : RowOfLastRequest(k))

(***************************************************************************)
(* C3.  A response with an RPC-level "error" field: on export the page is  *)
(* recorded as a failed row (negative export_ms) and the run goes on; on   *)
(* create-screen and bulk-add an error carrying the payload propagates and *)
(* ends the run.                                                           *)
(* Fails: create_corporate_website.py ends the run on export, and          *)
(* create_corporate_v2.py ignores the field.                               *)
(***************************************************************************)
C3_RpcErrorByCall ==
  HasErrorField =>
    IF tool = "mockup_export"
    THEN /\ ~Aborted
         /\ \E k \in 1..Len(results) : RowOfLastRequest(k) /\ results[k].export_ms < 0
    ELSE /\ Aborted
         /\ outcome = Raise("MCP error", ErrorField)

(***************************************************************************)
(* C4.  The row of every page whose export raised has export_ms < 0,       *)
(* whatever the elapsed time, and the table shows a failure marker for it. *)
(* Fails in create_corporate_v2.py when the failed call took 0 ms:         *)
(* -(te1 - te0) is 0.                                                      *)
(***************************************************************************)
C4_FailedExportNegative ==
  \A k \in 1..Len(results) :
    results[k].idx \in export_raised =>
      /\ results[k].export_ms < 0
      /\ summary.rendered => summary.table[k].export.marker \in {"FAIL", "TIMEOUT"}

(***************************************************************************)
(* C5.  As claimed: a transport failure of any call ends the run at once.  *)
(* Fails for the export calls of create_corporate_v2.py and                *)
(* continue_corporate_website.py, which catch every Exception.             *)
(***************************************************************************)
C5_TransportFailureFatal ==
  reply.kind = "failure" => Aborted

(***************************************************************************)
(* C5, amended.  A transport failure of create-screen or bulk-add, and of  *)
(* export in create_corporate_website.py, ends the run at once: the failed *)
(* request is the last one sent, no row is appended for the page and no    *)
(* summary is rendered, and no step follows.  A transport failure of       *)
(* export in create_corporate_v2.py and continue_corporate_website.py is   *)
(* caught: the page gets a row with export_ms <= 0 and the run goes on.    *)
(***************************************************************************)
C5_AfterTransportFailure ==
  reply.kind = "failure" =>
    IF tool = "mockup_export" /\ script \in {"v2", "continue"}
    THEN /\ ~Aborted
         /\ \E k \in 1..Len(results) : RowOfLastRequest(k) /\ results[k].export_ms <= 0
    ELSE /\ Aborted
         /\ ~summary.rendered
         /\ \A k \in 1..Len(results) : results[k].idx # idx

C5_TransportFailure ==
  /\ []C5_AfterTransportFailure
  /\ [][~Aborted]_vars

C5_Witness ==
  /\ script = "v2"
  /\ reply.kind = "failure"
  /\ tool = "mockup_export"
  /\ pc = "create"
  /\ idx = 2

(***************************************************************************)
(* C6.  A failure of create-screen or bulk-add (RPC-level error or         *)
(* tool-level isError) ends the run: no row for the page, no summary; the  *)
(* tool-level failure of export is recovered from, in every script.        *)
(* Fails: create_corporate_v2.py goes on after an RPC-level error (C1),    *)
(* create_corporate_website.py ends the run on a failed export (C2).       *)
(***************************************************************************)
C6_CreationFailureFatal ==
  /\ (tool \in {"mockup_add_screen", "mockup_bulk_add_elements"}
        /\ (HasErrorField \/ ResultIsError))
       => /\ Aborted
          /\ ~summary.rendered
          /\ \A k \in 1..Len(results) : results[k].idx # idx
  /\ (tool = "mockup_export" /\ ResultIsError /\ ~HasErrorField)
       => /\ ~Aborted
          /\ \E k \in 1..Len(results) : RowOfLastRequest(k)

(***************************************************************************)
(* C7.  The k-th request built in a run carries id offset + k, where the   *)
(* offset is 100, 500 or 600 by script, and _id_counter is the id of the   *)
(* last request: ids go up by one per request, whatever the earlier calls  *)
(* did.                                                                    *)
(***************************************************************************)
C7_IdsSequential ==
  /\ id_counter = IdOffset(script) + Len(sent)
  /\ \A k \in 1..Len(sent) : sent[k].payload.id = IdOffset(script) + k

\* a request was built after a call that raised and was caught
C7_Witness ==
  /\ export_raised # {}
  /\ tool = "mockup_bulk_add_elements"
  /\ Len(sent) >= 5

(***************************************************************************)
(* C8.  For the pages a script creates, the requests are sent in groups    *)
(* create-screen, bulk-add, export, one group per page in page order, each *)
(* request at most once; bulk-add is sent only right after the page's      *)
(* create-screen returned, with the id that call returned; export only     *)
(* right after the page's bulk-add returned, with the same id.             *)
(***************************************************************************)
\* position of the first request of the page loop
FirstNewRequest(s) == IF s = "continue" THEN Len(existing) + 1 ELSE 1

C8_Log ==
  \A k \in FirstNewRequest(script)..Len(sent) :
    LET g == (k - FirstNewRequest(script)) \div 3
        m == (k - FirstNewRequest(script)) % 3
    IN CASE m = 0 -> /\ ToolOf(sent[k]) = "mockup_add_screen"
                     /\ ArgsOf(sent[k]).name = PageName[FirstNewPage(script) + g]
         [] m = 1 -> ToolOf(sent[k]) = "mockup_bulk_add_elements"
         [] m = 2 -> /\ ToolOf(sent[k]) = "mockup_export"
                     /\ ArgsOf(sent[k]).screen_id = ArgsOf(sent[k - 1]).screen_id

C8_Step ==
  (Len(sent') = Len(sent) + 1 /\ Len(sent') >= FirstNewRequest(script)) =>
    LET new == sent'[Len(sent')]
    IN /\ ToolOf(new) = "mockup_bulk_add_elements" =>
            /\ tool = "mockup_add_screen"
            /\ outcome.kind = "return"
            /\ ScreenId(outcome.value) = Return(ArgsOf(new).screen_id)
       /\ ToolOf(new) = "mockup_export" =>
            /\ tool = "mockup_bulk_add_elements"
            /\ outcome.kind = "return"

C8_RequestOrder ==
  /\ []C8_Log
  /\ [][C8_Step]_vars

C8_Witness ==
  /\ pc = "done"
  /\ Len(sent) = 3 * NumPages
  /\ ArgsOf(sent[6]).screen_id # ArgsOf(sent[3]).screen_id

(***************************************************************************)
(* C9.  When the body holds a line that starts with "data: ", the outcome  *)
(* of mcp_call is that of the body cut off after the first such line.      *)
(* Fails in create_corporate_website.py and continue_corporate_website.py  *)
(* when nothing follows the prefix on that line: result_text is empty and  *)
(* the whole body is parsed instead.                                       *)
(***************************************************************************)
HasDataLine(body) == FirstDataLine(SplitLines(body)) # 0

RECURSIVE LengthOfLines(_, _)
\* the length of the first i lines with the i - 1 boundaries between them
LengthOfLines(lines, i) ==
  IF i = 0 THEN 0
  ELSE IF i = 1 THEN Len(lines[1])
  ELSE LengthOfLines(lines, i - 1) + 1 + Len(lines[i])

UpToFirstDataLine(body) ==
  LET lines == SplitLines(body)
  IN SubSeq(body, 1, LengthOfLines(lines, FirstDataLine(lines)))

C9_OnlyFirstDataLine ==
  (pc = "decoded" /\ HasDataLine(reply.body))
    => rpc = mcp_call(script, UpToFirstDataLine(reply.body))

(***************************************************************************)
(* C10.  As claimed: for every JSON document J, the body "data: " J "\n"   *)
(* has the outcome of the bare body J, and a body without a "data: " line  *)
(* is parsed whole after trimming.                                         *)
(* Fails for a J that holds a line boundary of str.splitlines: the data    *)
(* line ends there.                                                        *)
(***************************************************************************)
AsEventLine(J) == <<DataPrefix>> \o J \o <<NL>>

C10_EventLineAsBare ==
  pc = "decoded" =>
    /\ JsonLoads(reply.body).ok => mcp_call(script, AsEventLine(reply.body)) = rpc
    /\ ~HasDataLine(reply.body) => PayloadText(script, reply.body) = Strip(reply.body)

(***************************************************************************)
(* C10, amended.  For every JSON document J that holds no line boundary    *)
(* of str.splitlines, the body "data: " J "\n" has the outcome of the bare *)
(* body J; a body without a "data: " line is parsed whole after trimming.  *)
(***************************************************************************)
OneLine(t) == \A i \in 1..Len(t) : t[i] \notin LineBreaks

C10_OneLineEventLineAsBare ==
  pc = "decoded" =>
    /\ (JsonLoads(reply.body).ok /\ OneLine(reply.body))
         => mcp_call(script, AsEventLine(reply.body)) = rpc
    /\ ~HasDataLine(reply.body) => PayloadText(script, reply.body) = Strip(reply.body)

C10_Witness ==
  /\ pc = "decoded"
  /\ Len(reply.body) = 3
  /\ JsonLoads(reply.body).ok
  /\ OneLine(reply.body)
  /\ rpc.kind = "return"
  /\ mcp_call(script, AsEventLine(reply.body)) = rpc

(***************************************************************************)
(* Vocabulary of the result extractor's properties.                        *)
(***************************************************************************)
\* mcp_call handed a tool result (an object) to the extractor.
IsToolResult == pc = "decoded" /\ rpc.kind = "return" /\ IsDict(rpc.value)
ContentOfResult == Get(rpc.value, "content", List(<<>>))
IsErrorOfResult == Get(rpc.value, "isError", None)

\* content is a sequence of content items (objects) that is not empty
HasFirstItem ==
  /\ ContentOfResult.k = "list"
  /\ ContentOfResult.items # <<>>
  /\ IsDict(ContentOfResult.items[1])

FirstItemOfResult == ContentOfResult.items[1]
FirstIsText == Get(FirstItemOfResult, "type", None) = Str(<<"text">>)

(***************************************************************************)
(* C11.  For every tool result with isError true the extractor raises the  *)
(* tool error, whose message is the text of the first content item when    *)
(* content is not empty and the unknown marker ("unknown", or "?" in       *)
(* create_corporate_v2.py) when it is empty.                               *)
(* Fails when the first content item has no text (an image item):          *)
(* content[0]['text'] raises KeyError instead.                             *)
(***************************************************************************)
C11_IsErrorFails ==
  (IsToolResult /\ IsErrorOfResult = Bool(TRUE)) =>
    /\ outcome.kind = "raise"
    /\ outcome.exc = "Tool error"
    /\ outcome.value.tool = tool
    /\ IF ContentOfResult.items # <<>>
       THEN /\ HasKey(FirstItemOfResult, "text")
            /\ outcome.value.text = FirstItemOfResult.d["text"]
       ELSE outcome.value.text \in {Str(<<"unknown">>), Str(<<"?">>)}

(***************************************************************************)
(* C12.  For every tool result whose isError is false (or absent) and      *)
(* whose first content item has type "text" and a text: the extractor      *)
(* returns the parsed value when the text is valid JSON and the text       *)
(* itself, unchanged, when it is not; it never raises.                     *)
(***************************************************************************)
C12_TextParsedOrRaw ==
  (/\ IsToolResult
   /\ ~Truthy(IsErrorOfResult)
   /\ HasFirstItem
   /\ FirstIsText
   /\ HasKey(FirstItemOfResult, "text")) =>
    LET text == FirstItemOfResult.d["text"]
    IN /\ outcome.kind = "return"
       /\ IF text.k = "str" /\ JsonLoads(text.s).ok
          THEN outcome.value = JsonLoads(text.s).v
          ELSE outcome.value = text

\* a text that is not JSON came back as it was, from an event stream
C12_Witness ==
  /\ pc = "decoded"
  /\ reply.body = EventStream("R_text")
  /\ outcome = Return(Str(<<"x">>))

(***************************************************************************)
(* C13.  For every tool result whose isError is false (or absent) and      *)
(* whose content is empty, or starts with a content item that is not of    *)
(* type "text", the extractor returns the result value itself, whatever    *)
(* items follow the first.                                                 *)
(***************************************************************************)
C13_OtherResultUnchanged ==
  (/\ IsToolResult
   /\ ~Truthy(IsErrorOfResult)
   /\ \/ ContentOfResult = List(<<>>)
      \/ HasFirstItem /\ ~FirstIsText) =>
    outcome = Return(rpc.value)

\* an image item followed by a text item that holds JSON
C13_Witness ==
  /\ pc = "decoded"
  /\ reply.body = <<"R_image_text">>
  /\ outcome = Return(DocValue["R_image_text"].d["result"])

(***************************************************************************)
(* C14.  For every page a run creates (a page with an element generator),  *)
(* at most one bulk-add request is sent, right after the page's            *)
(* create-screen request, and exactly one once the page has its row; its   *)
(* elements are the list the page's generator returns, whole and in order, *)
(* and the row's num_elements is the length of the list that was sent.     *)
(***************************************************************************)
\* positions in sent of the create-screen requests of page i
CreateOfPage(i) ==
  {k \in 1..Len(sent) : /\ ToolOf(sent[k]) = "mockup_add_screen"
                        /\ ArgsOf(sent[k]).name = PageName[i]}

\* positions in sent of the bulk-add requests of page i
BulkOfPage(i) ==
  {k \in 2..Len(sent) : /\ ToolOf(sent[k]) = "mockup_bulk_add_elements"
                        /\ (k - 1) \in CreateOfPage(i)}

C14_BulkAddWhole ==
  /\ \A k \in 1..Len(sent) :
       ToolOf(sent[k]) = "mockup_bulk_add_elements" =>
         \E i \in FirstNewPage(script)..NumPages :
           /\ k \in BulkOfPage(i)
           /\ ArgsOf(sent[k]).elements = elements_fn(script, i)
           /\ Len(ArgsOf(sent[k]).elements) = ElementCount(script, i)
  /\ \A i \in 1..NumPages : Cardinality(BulkOfPage(i)) <= 1
  /\ \A j \in 1..Len(results) :
       results[j].idx >= FirstNewPage(script) =>
         /\ Cardinality(BulkOfPage(results[j].idx)) = 1
         /\ \A k \in BulkOfPage(results[j].idx) :
              /\ results[j].num_elements = Len(ArgsOf(sent[k]).elements)
              /\ ArgsOf(sent[k]).screen_id = results[j].screen_id

\* a whole run of continue_corporate_website.py, which creates two pages
C14_Witness ==
  /\ script = "continue"
  /\ pc = "done"
  /\ Cardinality(BulkOfPage(4)) = 1
  /\ Cardinality(BulkOfPage(5)) = 1
  /\ results[5].num_elements = 33

(***************************************************************************)
(* C15.  In every script, when the summary is rendered results holds       *)
(* exactly 5 rows, the k-th of which is the row of page k: every index     *)
(* 1..5 once, in ascending order, so the divisor 5 of the averages is the  *)
(* number of rows.                                                         *)
(***************************************************************************)
C15_FiveRowsAtSummary ==
  summary.rendered =>
    /\ Len(results) = 5
    /\ \A k \in 1..Len(results) : results[k].idx = k
    /\ Len(summary.table) = 5
    /\ \A k \in 1..Len(summary.table) : summary.table[k].idx = k
    /\ summary.avg_elements = summary.total_elements \div Len(results)

\* the summary of a run in which an export raised and was caught
C15_Witness ==
  /\ summary.rendered
  /\ script = "continue"
  /\ 2 \in export_raised
  /\ 5 \in export_raised

(***************************************************************************)
(* C16.  Round trip.  The serialized body of every request parses back to  *)
(* the envelope it was built from (jsonrpc, id, method, params); and a     *)
(* response {"result": v}, serialized by json.dumps and sent as a bare     *)
(* body or as one "data: " line, is decoded to v.                          *)
(***************************************************************************)
C16_RoundTrip ==
  pc = "roundtrip" =>
    /\ \A k \in 1..Len(sent) :
         LET parsed == JsonLoads(RequestBody(sent[k]))
         IN /\ parsed.ok
            /\ parsed.v = PayloadValue(sent[k])
            /\ parsed.v.d["jsonrpc"] = Str(<<"2.0">>)
            /\ parsed.v.d["id"] = Num(sent[k].payload.id)
            /\ parsed.v.d["method"] = Str(<<"tools/call">>)
            /\ parsed.v.d["params"].d["name"] = Str(<<tool>>)
    /\ \A v \in ResponseValues, enc \in Encodings :
         reply.body = EncodeBody(enc, JsonDumps(Dict([result |-> v]))) => rpc = Return(v)

\* a result whose string holds a line boundary and "data: " came back whole
\* from an event line
C16_Witness ==
  /\ pc = "roundtrip"
  /\ tool = "mockup_bulk_add_elements"
  /\ Head(reply.body) = DataPrefix
  /\ rpc = Return(Dict([content |-> List(<<>>), note |-> Str(<<LS, DataPrefix>>)]))

(***************************************************************************)
(* C17.  Every request of a run goes by POST to the one endpoint and       *)
(* carries the same three headers: the session identifier, the content     *)
(* type application/json and an accept header naming application/json and  *)
(* text/event-stream, whatever the earlier calls did.                      *)
(***************************************************************************)
C17_FixedEndpointAndHeaders ==
  \A k \in 1..Len(sent) :
    /\ sent[k].url = "http://localhost:3200/mcp"
    /\ sent[k].http_method = "POST"
    /\ sent[k].headers.McpSessionId = "ffba88af-54d6-46c3-ad55-8abdfa7df1e0"
    /\ sent[k].headers.ContentType = "application/json"
    /\ sent[k].headers.Accept = "application/json, text/event-stream"
    /\ sent[k].url = sent[1].url
    /\ sent[k].headers = sent[1].headers

\* a request sent after an export that raised and was caught
C17_Witness ==
  /\ script = "v2"
  /\ 1 \in export_raised
  /\ tool = "mockup_add_screen"
  /\ Len(sent) = 4

(***************************************************************************)
(* C18.  As claimed: two RPC methods are used over a run; the tool         *)
(* invocation method takes params {name, arguments} and is invoked for     *)
(* the three tools only, with the arguments of each tool's schema.         *)
(* Fails: "tools/call" is the only method a script ever sends.             *)
(***************************************************************************)
UsedMethods == {sent[k].payload.method : k \in 1..Len(sent)}

SchemaOf(req) ==
  CASE ToolOf(req) = "mockup_add_screen" ->
         /\ {"name", "width", "height", "background", "style"} \subseteq DOMAIN ArgsOf(req)
         /\ ArgsOf(req).name \in {PageName[i] : i \in 1..NumPages}
    [] ToolOf(req) = "mockup_bulk_add_elements" ->
         /\ {"screen_id", "elements"} \subseteq DOMAIN ArgsOf(req)
         /\ DOMAIN ArgsOf(req).elements = 1..Len(ArgsOf(req).elements)
    [] ToolOf(req) = "mockup_export" ->
         /\ {"screen_id", "format", "scale"} \subseteq DOMAIN ArgsOf(req)
         /\ ArgsOf(req).format = "png"
         /\ ArgsOf(req).scale = 1
    [] OTHER -> FALSE

ToolInvocations ==
  \A k \in 1..Len(sent) :
    sent[k].payload.method = "tools/call" =>
      /\ DOMAIN sent[k].payload.params = {"name", "arguments"}
      /\ ToolOf(sent[k]) \in {"mockup_add_screen", "mockup_bulk_add_elements",
                              "mockup_export"}
      /\ SchemaOf(sent[k])

C18_TwoMethods ==
  /\ ToolInvocations
  /\ pc = "done" => Cardinality(UsedMethods) = 2

(***************************************************************************)
(* C18, amended.  One RPC method is used over a run, the tool invocation   *)
(* method "tools/call"; it takes params {name, arguments} and is invoked   *)
(* for the three tools only, with the arguments of each tool's schema.     *)
(***************************************************************************)
C18_OneMethod ==
  /\ ToolInvocations
  /\ UsedMethods \subseteq {"tools/call"}
  /\ pc = "done" => Cardinality(UsedMethods) = 1

\* a whole run with the three tools invoked
C18_Witness ==
  /\ script = "website"
  /\ pc = "done"
  /\ {ToolOf(sent[k]) : k \in 1..Len(sent)} =
       {"mockup_add_screen", "mockup_bulk_add_elements", "mockup_export"}

(***************************************************************************)
(* C19.  For every page a run creates: t_start is read before the          *)
(* create-screen request is sent, t_end after the bulk-add response has    *)
(* come, creation_ms is t_end - t_start; the export is timed on its own,   *)
(* from a start read no earlier than t_end to the end of the export call,  *)
(* so neither time holds any of the other.                                 *)
(***************************************************************************)
C19_Step ==
  /\ (Len(sent') = Len(sent) + 1 /\ tool' = "mockup_add_screen") =>
       t_start' = now
  /\ (Len(sent') = Len(sent) + 1 /\ tool' = "mockup_bulk_add_elements"
        /\ outcome'.kind = "return") =>
       /\ t_start' = t_start
       /\ t_end' = now'
       /\ creation_time' = t_end' - t_start'
  /\ (Len(sent') = Len(sent) + 1 /\ tool' = "mockup_export" /\ pc = "export") =>
       /\ t_end' = t_end
       /\ t_exp_start' >= t_end
       /\ t_exp_start' >= now
       /\ t_exp_start' <= now'
       /\ Len(results') = Len(results) + 1 =>
            LET row == results'[Len(results')]
            IN /\ row.creation_ms = t_end - t_start
               /\ outcome'.kind = "return" => row.export_ms = now' - t_exp_start'
               /\ row.creation_ms + (now' - t_exp_start') <= now' - t_start

C19_SeparateTiming == [][C19_Step]_vars

\* page 2: created in 1 ms from time 1 on, exported in 0 ms
C19_Witness ==
  /\ Len(results) = 2
  /\ tool = "mockup_export"
  /\ outcome.kind = "return"
  /\ t_start = 1
  /\ t_end = 2
  /\ results[2].creation_ms = 1
  /\ results[2].export_ms = 0

(***************************************************************************)
(* C20.  No retry.  Every request sent has drawn one id and every id drawn *)
(* has gone out with one request, so the number of requests is the number  *)
(* of ids drawn; a run sends at most 15 requests (9 in                     *)
(* continue_corporate_website.py), each create-screen for another page;    *)
(* and the request that follows a call that raised is never that call      *)
(* again.                                                                  *)
(***************************************************************************)
RequestsOf(tool_name) == {k \in 1..Len(sent) : ToolOf(sent[k]) = tool_name}

C20_Counts ==
  /\ Len(sent) = id_counter - IdOffset(script)
  /\ Len(sent) <= IF script = "continue" THEN 9 ELSE 15
  /\ \A j, k \in 1..Len(sent) : j < k => sent[j].payload.id < sent[k].payload.id
  /\ \A j, k \in RequestsOf("mockup_add_screen") :
       j # k => ArgsOf(sent[j]).name # ArgsOf(sent[k]).name
  /\ Cardinality(RequestsOf("mockup_add_screen")) <= NumPages - FirstNewPage(script) + 1
  /\ Cardinality(RequestsOf("mockup_bulk_add_elements"))
       <= Cardinality(RequestsOf("mockup_add_screen"))
  /\ Cardinality(RequestsOf("mockup_export")) <= NumPages

C20_Step ==
  (Len(sent') = Len(sent) + 1 /\ Len(sent) >= 1 /\ outcome.kind = "raise") =>
    \/ ToolOf(sent'[Len(sent')]) # ToolOf(LastRequest)
    \/ ArgsOf(sent'[Len(sent')]) # ArgsOf(LastRequest)

C20_NoRetry ==
  /\ []C20_Counts
  /\ [][C20_Step]_vars

\* a whole run of continue_corporate_website.py in which the exports of two
\* existing screens, one after the other, raised
C20_Witness ==
  /\ script = "continue"
  /\ pc = "done"
  /\ Len(sent) = 9
  /\ {1, 2} \subseteq export_raised

(***************************************************************************)
(* C21.  In create_corporate_v2.py and continue_corporate_website.py the   *)
(* export total of the summary is the sum of export_ms over the rows whose *)
(* export call returned: a row whose export raised adds nothing and takes  *)
(* nothing away; and the averages are the totals floor-divided by 5,       *)
(* failed exports or not.                                                  *)
(***************************************************************************)
SucceededExportMs(r) == IF r.idx \in export_raised THEN 0 ELSE r.export_ms

C21_ExportTotal ==
  (summary.rendered /\ script \in {"v2", "continue"}) =>
    /\ summary.total_export
         = Sum([k \in 1..Len(results) |-> SucceededExportMs(results[k])])
    /\ summary.avg_export = summary.total_export \div 5
    /\ summary.avg_creation = summary.total_creation \div 5
    /\ summary.avg_elements = summary.total_elements \div 5

\* a summary over rows of which one export raised and one took time
C21_Witness ==
  /\ summary.rendered
  /\ script = "continue"
  /\ export_raised # {}
  /\ summary.total_export > 0
  /\ summary.avg_export = 0

(***************************************************************************)
(* C22.  In continue_corporate_website.py the first three requests of a    *)
(* run are the exports of the three existing screens, each with its        *)
(* hard-coded screen id, in order; no create-screen or bulk-add request    *)
(* comes before the fourth request, and the run is never aborted before    *)
(* the three were sent, whatever their outcomes.  The row of each carries  *)
(* the hard-coded idx, name, screen_id, creation_ms and num_elements, and  *)
(* its export_ms is the elapsed time when the export returned and -1 when  *)
(* it raised.                                                              *)
(***************************************************************************)
C22_Existing ==
  script = "continue" =>
    /\ \A k \in 1..Len(sent) :
         k <= Len(existing) =>
           /\ ToolOf(sent[k]) = "mockup_export"
           /\ ArgsOf(sent[k]).screen_id = existing[k].screen_id
    /\ \A k \in RequestsOf("mockup_add_screen") : k > Len(existing)
    /\ Aborted => Len(sent) > Len(existing)
    /\ pc # "existing" => Len(results) >= Len(existing)
    /\ \A k \in 1..Len(results) :
         k <= Len(existing) =>
           /\ results[k].idx = existing[k].idx
           /\ results[k].name = existing[k].name
           /\ results[k].screen_id = existing[k].screen_id
           /\ results[k].creation_ms = existing[k].creation_ms
           /\ results[k].num_elements = existing[k].num_elements
           /\ IF k \in export_raised THEN results[k].export_ms = 0 - 1
              ELSE results[k].export_ms >= 0

C22_Step ==
  (script = "continue" /\ pc = "existing") =>
    /\ Len(sent') = Len(sent) + 1
    /\ Len(results') = Len(results) + 1
    /\ results'[Len(results')].export_ms
         = IF outcome'.kind = "raise" THEN 0 - 1 ELSE now' - now

C22_ExistingExportOnly ==
  /\ []C22_Existing
  /\ [][C22_Step]_vars

\* the three existing screens done, the export of the second having raised
\* after 1 ms and the third having taken 1 ms
C22_Witness ==
  /\ script = "continue"
  /\ pc = "create"
  /\ Len(sent) = Len(existing)
  /\ export_raised = {2}
  /\ results[3].export_ms = 1
  /\ now = 2

(***************************************************************************)
(* C23.  In create_corporate_v2.py and continue_corporate_website.py, when *)
(* the export call of a created page raises: one row is appended, whose    *)
(* idx and name are the page's, whose screen_id is the id the bulk-add     *)
(* request was sent with, whose creation_ms is t_end - t_start and whose   *)
(* num_elements is the length of the page's element list; only its         *)
(* export_ms tells the failure; the rows of the earlier pages stay as they *)
(* are; and the request-id counter goes up by exactly one.                 *)
(***************************************************************************)
C23_Step ==
  (script \in {"v2", "continue"} /\ pc = "export" /\ outcome'.kind = "raise") =>
    /\ Len(results') = Len(results) + 1
    /\ SubSeq(results', 1, Len(results)) = results
    /\ LET row == results'[Len(results')]
       IN /\ row.idx = idx
          /\ row.name = PageName[idx]
          /\ row.screen_id = screen_id
          /\ row.screen_id = ArgsOf(LastRequest).screen_id
          /\ row.creation_ms = t_end - t_start
          /\ row.num_elements = Len(elements_fn(script, idx))
          /\ row.export_ms <= 0
    /\ id_counter' = id_counter + 1
    /\ Len(sent') = Len(sent) + 1
    /\ pc' # "aborted"

C23_FailedExportFrame == [][C23_Step]_vars

\* the export of the second page raised after a creation that took 1 ms
C23_Witness ==
  /\ script = "v2"
  /\ Len(results) = 2
  /\ export_raised = {2}
  /\ results[1].export_ms = 1
  /\ results[2].creation_ms = 1
  /\ results[2].export_ms = 0
  /\ outcome.kind = "raise"

(***************************************************************************)
(* C24.  When the response of a call decodes to an object with neither     *)
(* "result" nor "error", mcp_call returns {} and the extractor returns {}  *)
(* without raising.  If the call was an export, the page's row is appended *)
(* as a successful export with export_ms >= 0 and the run goes on; if it   *)
(* was a create-screen, the run is aborted by the read of "id", with the   *)
(* create-screen request the last one sent (no bulk-add follows).          *)
(***************************************************************************)
NeitherField ==
  /\ reply.kind = "body"
  /\ LastDecoded.ok
  /\ IsDict(LastDecoded.v)
  /\ ~HasKey(LastDecoded.v, "result")
  /\ ~HasKey(LastDecoded.v, "error")

C24_NeitherIsEmptyResult ==
  NeitherField =>
    /\ rpc = Return(EmptyDict)
    /\ outcome = Return(EmptyDict)
    /\ tool = ToolOf(LastRequest)
    /\ tool = "mockup_export" =>
         /\ ~Aborted
         /\ RowOfLastRequest(Len(results))
         /\ results[Len(results)].export_ms >= 0
         /\ results[Len(results)].idx \notin export_raised
    /\ tool = "mockup_add_screen" =>
         /\ Aborted
         /\ RequestsOf("mockup_bulk_add_elements")
              \subseteq 1..(Len(sent) - 1)
         /\ \A k \in 1..Len(results) : results[k].name # ArgsOf(LastRequest).name
    /\ tool = "mockup_bulk_add_elements" => pc = "export"

\* an export answered with {} after 1 ms
C24_ExportCase ==
  /\ NeitherField
  /\ tool = "mockup_export"
  /\ results[Len(results)].export_ms = 1
  /\ script = "website"

\* a create-screen answered with {} on the second page: the run is aborted
\* with three requests sent and one row
C24_Witness ==
  /\ NeitherField
  /\ tool = "mockup_add_screen"
  /\ Aborted
  /\ Len(results) = 1
  /\ Len(sent) = 4
  /\ script = "v2"

(***************************************************************************)
(* C25.  As claimed: when the text of a response body in its encoding      *)
(* (what follows the prefix on the first "data: " line, or the trimmed     *)
(* whole body when no line starts with "data: ") is not valid JSON,        *)
(* mcp_call raises a parse error and the caller gets no value.             *)
(* Fails in create_corporate_website.py and continue_corporate_website.py  *)
(* for a first "data: " line with nothing after the prefix: the whole      *)
(* body is parsed instead, and may be valid JSON.                          *)
(***************************************************************************)
EncodedText(body) ==
  LET lines == SplitLines(body)
  IN IF HasDataLine(body) THEN Tail(lines[FirstDataLine(lines)]) ELSE Strip(body)

C25_InvalidJsonRaises ==
  (pc = "decoded" /\ ~JsonLoads(EncodedText(reply.body)).ok) =>
    /\ rpc = Raise("JSONDecodeError", None)
    /\ outcome.kind = "raise"

(***************************************************************************)
(* C26.  Termination.  With every call returning or raising, every run     *)
(* ends in one of two final states and stays there: "done", with the       *)
(* summary rendered over the rows of all 5 pages, or "aborted", with no    *)
(* summary.  The page index never goes down and moves by one page at a     *)
(* time, the rows are in ascending order of page, and no create-screen     *)
(* request names a page a second time.                                     *)
(***************************************************************************)
Final == pc \in {"done", "aborted"}

C26_Finals ==
  /\ pc = "done" => (summary.rendered /\ Len(results) = NumPages /\ idx = NumPages + 1)
  /\ Aborted => /\ ~summary.rendered
                /\ Len(results) < NumPages
                /\ (outcome.kind = "raise" \/ tool = "mockup_add_screen")
  /\ summary.rendered => pc = "done"
  /\ pc \notin {"summary", "done", "aborted"} => idx \in 1..NumPages
  /\ pc = "summary" => (idx = NumPages + 1 /\ Len(results) = NumPages)
  /\ \A j, k \in 1..Len(results) : j < k => results[j].idx < results[k].idx
  /\ \A k \in 1..Len(results) : results[k].idx < idx
  /\ \A j, k \in RequestsOf("mockup_add_screen") :
       j < k => ArgsOf(sent[j]).name # ArgsOf(sent[k]).name

C26_Step ==
  /\ idx' \in {idx, idx + 1}
  /\ Final => UNCHANGED vars
  /\ Len(results') \in {Len(results), Len(results) + 1}
  /\ Len(results') = Len(results) + 1 => idx' = idx + 1

C26_Termination ==
  /\ <>Final
  /\ []C26_Finals
  /\ [][C26_Step]_vars

\* a run that went through all five pages and rendered the summary although
\* two exports raised
C26_Witness ==
  /\ pc = "done"
  /\ script = "v2"
  /\ summary.rendered
  /\ Len(sent) = 3 * NumPages
  /\ export_raised = {1, NumPages}

(***************************************************************************)
(* C27.  What a call makes of its response depends on the response alone   *)
(* (and on the tool's name, which the tool error carries): after every     *)
(* call, in whatever position of the run and after whatever outcomes of    *)
(* the earlier calls, the values of mcp_call and of the extractor are the  *)
(* ones a first call of a fresh process has for the same response; two     *)
(* calls in a row with the same response have the same outcome; and the    *)
(* one thing a call leaves behind for the next is the id counter, one      *)
(* higher.                                                                 *)
(***************************************************************************)
FreshRpc(s, r) ==
  IF r.kind = "failure" THEN Raise("URLError", None) ELSE mcp_call(s, r.body)

FreshOutcome(s, tool_name, r) == tool_call(s, tool_name, FreshRpc(s, r))

C27_SameAsFresh ==
  Len(sent) >= 1 =>
    /\ rpc = FreshRpc(script, reply)
    /\ outcome = FreshOutcome(script, tool, reply)
    /\ LastRequest.payload.id = IdOffset(script) + Len(sent)

C27_Step ==
  Len(sent') = Len(sent) + 1 =>
    /\ id_counter' = id_counter + 1
    /\ reply' = reply => rpc' = rpc
    /\ (reply' = reply /\ tool' = tool) => outcome' = outcome

====
